---- MODULE Spec2Model ----
(***************************************************************************)
(* Impact_Prognasticator: the command-line analyzer (impact_analyzer.py)   *)
(* and the Gradio front end (impact_ui.py), which carries its own copy of  *)
(* the tables, of analyze_gcode and of calculate_resistance_score.         *)
(*                                                                         *)
(* Numbers.  Python floats are modelled as exact rationals [n, d] in       *)
(* lowest terms: every literal of the source (0.4, 5.0, 0.5, 1.5, 0.8 ...) *)
(* is the rational it is written as, and every operation is the exact      *)
(* one.  IEEE rounding is therefore not part of the model: where the exact *)
(* score sits on a verdict threshold and the float lands one ulp above it  *)
(* (0.4 layers with PLA: 75.00000000000001 against 1.5 * 50), the program  *)
(* reports the tier above the one computed here.  The boundary cases the   *)
(* properties below rest on are ones whose floats are exact (75.0, 40.0).  *)
(*                                                                         *)
(* Text.  A file's content is a sequence of tokens.  Punctuation, blanks   *)
(* and digits are single characters; a setting's key name and any other    *)
(* word is one token.  The regular expressions of analyze_gcode are run on *)
(* that sequence by a matcher that follows re.search: leftmost position,   *)
(* greedy repetition.                                                      *)
(***************************************************************************)
EXTENDS Integers, Sequences, FiniteSets, TLC

VARIABLES
    file,       \* the file the request names: [name, status, content]
    material,   \* --material / the Material dropdown
    impact,     \* --impact / the Impact Level dropdown
    log,        \* impact_log.csv: [exists, rows]
    clock,      \* datetime.now(), one tick per command-line run
    cli,        \* what the last run of main() computed
    ui,         \* what the last call of run_analysis() returned
    completed   \* history: the timestamps of the runs of main() that reached the end

vars == <<file, material, impact, log, clock, cli, ui, completed>>

(* ------------------------------ bounds --------------------------------- *)

MaxLines == 2

MaxRuns == 3

MaxWalls == 3

(* --------------------------- exact arithmetic -------------------------- *)

Abs(x) == IF x < 0 THEN -x ELSE x

RECURSIVE GCD(_, _)
GCD(a, b) == IF b = 0 THEN a ELSE GCD(b, a % b)

Rat(n, d) ==
    LET g == GCD(Abs(n), Abs(d))
        s == IF d < 0 THEN -1 ELSE 1
    IN  [n |-> (s * n) \div g, d |-> (s * d) \div g]

Num(i) == [n |-> i, d |-> 1]

RAdd(a, b) == Rat(a.n * b.d + b.n * a.d, a.d * b.d)

RSub(a, b) == Rat(a.n * b.d - b.n * a.d, a.d * b.d)

RMul(a, b) == Rat(a.n * b.n, a.d * b.d)

RDiv(a, b) == Rat(a.n * b.d, a.d * b.n)

RGt(a, b) == a.n * b.d > b.n * a.d

RGe(a, b) == a.n * b.d >= b.n * a.d

RECURSIVE Pow10(_)
Pow10(k) == IF k = 0 THEN 1 ELSE 10 * Pow10(k - 1)

(* round(x * scale) to the nearest integer, ties to even: the rounding of  *)
(* the format specifications .0% and .2f                                   *)
RoundScaled(x, scale) ==
    LET num == x.n * scale
        fl  == num \div x.d
        r2  == 2 * (num - fl * x.d)
    IN  IF r2 > x.d THEN fl + 1
        ELSE IF r2 < x.d THEN fl
        ELSE IF fl % 2 = 0 THEN fl ELSE fl + 1

(* ------------------------------ the tables ----------------------------- *)

None == [is_none |-> TRUE]

MATERIALS ==
    [PLA  |-> [tensile_strength |-> 50, impact_strength |-> 5],
     PETG |-> [tensile_strength |-> 45, impact_strength |-> 8],
     ABS  |-> [tensile_strength |-> 40, impact_strength |-> 10],
     TPU  |-> [tensile_strength |-> 35, impact_strength |-> 30]]

IMPACT_FORCES ==
    ("LOW (DROP)" :> 10) @@ ("MEDIUM (STRIKE)" :> 50) @@
    ("FEDER (LIGHT_TAP)" :> 30) @@ ("FEDER (FULL_STRIKE)" :> 150) @@
    ("SABER (LIGHT_CUT)" :> 40) @@ ("SABER (HEAVY_CUT)" :> 120) @@
    ("CRUSH (MODERATE)" :> 200)

ui_MATERIALS_stale ==
    [PLA  |-> [tensile_strength |-> 50, impact_strength |-> 5],
     PETG |-> [tensile_strength |-> 45, impact_strength |-> 8],
     ABS  |-> [tensile_strength |-> 40, impact_strength |-> 10],
     TPU  |-> [tensile_strength |-> 35, impact_strength |-> 25]]

ui_MATERIALS ==
    [PLA  |-> [tensile_strength |-> 50, impact_strength |-> 5],
     PETG |-> [tensile_strength |-> 45, impact_strength |-> 8],
     ABS  |-> [tensile_strength |-> 40, impact_strength |-> 10],
     TPU  |-> [tensile_strength |-> 35, impact_strength |-> 30]]

ui_IMPACT_FORCES ==
    ("LOW (DROP)" :> 10) @@ ("MEDIUM (STRIKE)" :> 50) @@
    ("FEDER (LIGHT_TAP)" :> 30) @@ ("FEDER (FULL_STRIKE)" :> 150) @@
    ("SABER (LIGHT_CUT)" :> 40) @@ ("SABER (HEAVY_CUT)" :> 120) @@
    ("CRUSH (MODERATE)" :> 200)

(* dict.get(key): the value, or None for a key the table does not hold *)
Get(table, key) == IF key \in DOMAIN table THEN table[key] ELSE None

(* ------------------------- characters and tokens ----------------------- *)

DigitValue ==
    ("0" :> 0) @@ ("1" :> 1) @@ ("2" :> 2) @@ ("3" :> 3) @@ ("4" :> 4) @@
    ("5" :> 5) @@ ("6" :> 6) @@ ("7" :> 7) @@ ("8" :> 8) @@ ("9" :> 9)

Digits == DOMAIN DigitValue

Whitespace == {" ", "\n"}

(* str.upper() on the word tokens of the model *)
UpperOf ==
    ("infill_percentage" :> "INFILL_PERCENTAGE") @@
    ("wall_line_count" :> "WALL_LINE_COUNT") @@
    ("layer_height" :> "LAYER_HEIGHT") @@
    ("infill_pattern" :> "INFILL_PATTERN") @@
    ("gyroid" :> "GYROID") @@ ("Lines" :> "LINES") @@
    ("triangles" :> "TRIANGLES") @@ ("Cubic" :> "CUBIC") @@
    ("honeycomb" :> "HONEYCOMB")

(* \w: letters, digits and the underscore *)
WordTokens == (DOMAIN UpperOf) \cup Digits

Upper(tok) == IF tok \in DOMAIN UpperOf THEN UpperOf[tok] ELSE tok

RECURSIVE UpperJoin(_)
UpperJoin(toks) ==
    IF toks = <<>> THEN "" ELSE Upper(Head(toks)) \o UpperJoin(Tail(toks))

(* ------------------------------ re.search ------------------------------ *)

(* the end of the longest run of tokens of class cls that starts at i      *)
RECURSIVE Span(_, _, _)
Span(s, i, cls) ==
    IF i <= Len(s) /\ s[i] \in cls THEN Span(s, i + 1, cls) ELSE i

(* the capture groups: each gives the position after the capture that      *)
(* starts at i, or 0 when the group does not match there                   *)
CapDecimalSigned(s, i) ==                 \* (-?\d+\.?\d*)
    LET b == IF i <= Len(s) /\ s[i] = "-" THEN i + 1 ELSE i
        j == Span(s, b, Digits)
    IN  IF j = b THEN 0
        ELSE IF j <= Len(s) /\ s[j] = "." THEN Span(s, j + 1, Digits)
             ELSE j

CapDecimal(s, i) ==                       \* (\d+\.?\d*)
    LET j == Span(s, i, Digits)
    IN  IF j = i THEN 0
        ELSE IF j <= Len(s) /\ s[j] = "." THEN Span(s, j + 1, Digits)
             ELSE j

CapInteger(s, i) ==                       \* (\d+)
    LET j == Span(s, i, Digits) IN IF j = i THEN 0 ELSE j

CapWord(s, i) ==                          \* (\w+)
    LET j == Span(s, i, WordTokens) IN IF j = i THEN 0 ELSE j

Capture(kind, s, i) ==
    CASE kind = "decimal" -> CapDecimal(s, i)
      [] kind = "integer" -> CapInteger(s, i)
      [] kind = "word"    -> CapWord(s, i)

(* ;\s*<key>\s*=\s*(<group>) tried at position i: the captured tokens, or  *)
(* None                                                                    *)
MatchAt(pat, s, i) ==
    IF ~(i <= Len(s) /\ s[i] = ";") THEN None
    ELSE LET k == Span(s, i + 1, Whitespace)
         IN  IF ~(k <= Len(s) /\ s[k] = pat.key) THEN None
             ELSE LET e == Span(s, k + 1, Whitespace)
                  IN  IF ~(e <= Len(s) /\ s[e] = "=") THEN None
                      ELSE LET v   == Span(s, e + 1, Whitespace)
                               end == Capture(pat.group, s, v)
                           IN  IF end = 0 THEN None
                               ELSE [group1 |-> SubSeq(s, v, end - 1)]

(* pattern.search(content): the match at the leftmost position that has    *)
(* one, or None                                                            *)
RECURSIVE SearchFrom(_, _, _)
SearchFrom(pat, s, i) ==
    IF i > Len(s) THEN None
    ELSE IF MatchAt(pat, s, i) # None THEN MatchAt(pat, s, i)
    ELSE SearchFrom(pat, s, i + 1)

Search(pat, s) == SearchFrom(pat, s, 1)

(* --------------------------- float() and int() ------------------------- *)

RECURSIVE IntOf(_, _)
IntOf(digits, acc) ==
    IF digits = <<>> THEN acc
    ELSE IntOf(Tail(digits), 10 * acc + DigitValue[Head(digits)])

ParseInt(toks) == IntOf(toks, 0)

(* float("12.5"), float("12."), float("12"), float("-0.3"): the decimal as *)
(* a rational                                                              *)
ParseFloat(toks) ==
    LET neg  == toks # <<>> /\ Head(toks) = "-"
        body == IF neg THEN Tail(toks) ELSE toks
        dot  == Span(body, 1, Digits)
        ip   == SubSeq(body, 1, dot - 1)
        fp   == SubSeq(body, dot + 1, Len(body))
    IN  Rat((IF neg THEN -1 ELSE 1) * IntOf(ip \o fp, 0), Pow10(Len(fp)))

(* ----------------------- str() and format() --------------------------- *)

RECURSIVE ZeroPad(_, _)
ZeroPad(str, width) == IF Len(str) >= width THEN str ELSE ZeroPad("0" \o str, width)

(* f"{x:.0%}" *)
FormatPercent0(x) == ToString(RoundScaled(x, 100)) \o "%"

(* f"{x:.2f}" *)
Format2f(x) ==
    LET h == RoundScaled(x, 100)
        a == Abs(h)
    IN  (IF x.n < 0 THEN "-" ELSE "") \o ToString(a \div 100) \o "." \o
        ZeroPad(ToString(a % 100), 2)

(* str(x) of a non-negative float that is a short decimal: "0.4", "5.0" *)
RECURSIVE FracDigits(_, _)
FracDigits(x, k) == IF (x.n * Pow10(k)) % x.d = 0 THEN k ELSE FracDigits(x, k + 1)

StrFloat(x) ==
    LET k == FracDigits(x, 1)
        v == (x.n * Pow10(k)) \div x.d
    IN  ToString(v \div Pow10(k)) \o "." \o ZeroPad(ToString(v % Pow10(k)), k)

(* ------------------- impact_analyzer.py: the core ---------------------- *)

read_file_lenient(f) ==
    IF f.status = "missing" THEN None
    ELSE IF f.status = "unreadable" THEN [content |-> <<>>]
    ELSE [content |-> f.content]

(* lines 39-47: the content of the file, or None when open() or read()     *)
(* raises; every exception is caught                                       *)
read_file(f) ==
    IF f.status = "missing" THEN None                \* except FileNotFoundError
    ELSE IF f.status = "unreadable" THEN None        \* except Exception
    ELSE [content |-> f.content]

default_params_percent ==
    [infill_density |-> Rat(20, 1),
     wall_count     |-> 2,
     layer_height   |-> Rat(2, 10),
     infill_pattern |-> "GRID"]

(* lines 50-53 *)
default_params ==
    [infill_density |-> Rat(20, 100),
     wall_count     |-> 2,
     layer_height   |-> Rat(2, 10),
     infill_pattern |-> "GRID"]

analyze_gcode(f) ==
    IF read_file(f) = None THEN None
    ELSE
    LET content == read_file(f).content
        infill_pattern       == [key |-> "infill_percentage", group |-> "decimal"]
        wall_pattern         == [key |-> "wall_line_count", group |-> "integer"]
        layer_height_pattern == [key |-> "layer_height", group |-> "decimal"]
        infill_type_pattern  == [key |-> "infill_pattern", group |-> "word"]
        infill_match      == Search(infill_pattern, content)
        wall_match        == Search(wall_pattern, content)
        layer_match       == Search(layer_height_pattern, content)
        infill_type_match == Search(infill_type_pattern, content)
    IN  [infill_density |->
            IF infill_match # None
            THEN RDiv(ParseFloat(infill_match.group1), Rat(1000, 10))
            ELSE default_params.infill_density,
         wall_count |->
            IF wall_match # None THEN ParseInt(wall_match.group1)
            ELSE default_params.wall_count,
         layer_height |->
            IF layer_match # None THEN ParseFloat(layer_match.group1)
            ELSE default_params.layer_height,
         infill_pattern |->
            IF infill_type_match # None THEN UpperJoin(infill_type_match.group1)
            ELSE default_params.infill_pattern]

infill_strength_multipliers_swapped ==
    ("GRID" :> Rat(10, 10)) @@ ("LINES" :> Rat(8, 10)) @@
    ("TRIANGLES" :> Rat(11, 10)) @@ ("CUBIC" :> Rat(12, 10)) @@
    ("GYROID" :> Rat(13, 10)) @@ ("DEFAULT" :> Rat(10, 10))

(* lines 96-103 *)
infill_strength_multipliers ==
    ("GRID" :> Rat(10, 10)) @@ ("LINES" :> Rat(8, 10)) @@
    ("TRIANGLES" :> Rat(12, 10)) @@ ("CUBIC" :> Rat(11, 10)) @@
    ("GYROID" :> Rat(13, 10)) @@ ("DEFAULT" :> Rat(10, 10))

structural_score_thin_layers(gcode_params) ==
    LET infill_weight == Rat(4, 10)
        wall_weight == Rat(5, 10)
        layer_adhesion_weight == Rat(1, 10)
        layer_adhesion_factor ==
            RSub(Num(1), RDiv(gcode_params.layer_height, Rat(5, 100)))
    IN  RAdd(RAdd(RMul(gcode_params.infill_density, infill_weight),
                  RMul(RDiv(Num(gcode_params.wall_count), Rat(50, 10)),
                       wall_weight)),
             RMul(layer_adhesion_factor, layer_adhesion_weight))

structural_score_walls_subtracted(gcode_params) ==
    LET infill_weight == Rat(4, 10)
        wall_weight == Rat(5, 10)
        layer_adhesion_weight == Rat(1, 10)
        layer_adhesion_factor ==
            RSub(Num(1), RDiv(gcode_params.layer_height, Rat(5, 10)))
    IN  RAdd(RSub(RMul(gcode_params.infill_density, infill_weight),
                  RMul(RDiv(Num(gcode_params.wall_count), Rat(50, 10)),
                       wall_weight)),
             RMul(layer_adhesion_factor, layer_adhesion_weight))

(* lines 107-120 *)
structural_score(gcode_params) ==
    LET infill_weight == Rat(4, 10)
        wall_weight == Rat(5, 10)
        layer_adhesion_weight == Rat(1, 10)
        layer_adhesion_factor ==
            RSub(Num(1), RDiv(gcode_params.layer_height, Rat(5, 10)))
    IN  RAdd(RAdd(RMul(gcode_params.infill_density, infill_weight),
                  RMul(RDiv(Num(gcode_params.wall_count), Rat(50, 10)),
                       wall_weight)),
             RMul(layer_adhesion_factor, layer_adhesion_weight))

calculate_resistance_score(gcode_params, material_props) ==
    IF gcode_params = None \/ material_props = None THEN Num(0)
    ELSE
    LET infill_pattern == gcode_params.infill_pattern
        strength_multiplier ==
            IF infill_pattern \in DOMAIN infill_strength_multipliers
            THEN infill_strength_multipliers[infill_pattern]
            ELSE Rat(10, 10)
    IN  RMul(RMul(RMul(structural_score(gcode_params),
                       Num(material_props.tensile_strength)),
                  Num(material_props.impact_strength)),
             strength_multiplier)

main_verdict_inclusive(resistance_score, impact_force) ==
    IF RGe(resistance_score, RMul(Num(impact_force), Rat(15, 10)))
    THEN "LIKELY TO SURVIVE"
    ELSE IF RGe(resistance_score, RMul(Num(impact_force), Rat(8, 10)))
    THEN "LIKELY TO BE DAMAGED"
    ELSE "LIKELY TO SHATTER"

(* the verdict of main(): lines 179-184 *)
main_verdict(resistance_score, impact_force) ==
    IF RGt(resistance_score, RMul(Num(impact_force), Rat(15, 10)))
    THEN "LIKELY TO SURVIVE"
    ELSE IF RGt(resistance_score, RMul(Num(impact_force), Rat(8, 10)))
    THEN "LIKELY TO BE DAMAGED"
    ELSE "LIKELY TO SHATTER"

(* --------------------- impact_ui.py: the copied core ------------------- *)

Raised == [raised |-> TRUE]

(* lines 29-33: only FileNotFoundError and TypeError are caught; any other *)
(* failure of open() or read() leaves analyze_gcode as an exception        *)
ui_read_file(f) ==
    IF f.status = "missing" THEN None
    ELSE IF f.status = "unreadable" THEN Raised
    ELSE [content |-> f.content]

(* lines 35-38 *)
ui_default_params ==
    [infill_density |-> Rat(20, 100),
     wall_count     |-> 2,
     layer_height   |-> Rat(2, 10),
     infill_pattern |-> "GRID"]

ui_analyze_gcode(f) ==
    IF ui_read_file(f) = None THEN None
    ELSE IF ui_read_file(f) = Raised THEN Raised
    ELSE
    LET content == ui_read_file(f).content
        infill_pattern       == [key |-> "infill_percentage", group |-> "decimal"]
        wall_pattern         == [key |-> "wall_line_count", group |-> "integer"]
        layer_height_pattern == [key |-> "layer_height", group |-> "decimal"]
        infill_type_pattern  == [key |-> "infill_pattern", group |-> "word"]
        infill_match      == Search(infill_pattern, content)
        wall_match        == Search(wall_pattern, content)
        layer_match       == Search(layer_height_pattern, content)
        infill_type_match == Search(infill_type_pattern, content)
    IN  [infill_density |->
            IF infill_match # None
            THEN RDiv(ParseFloat(infill_match.group1), Rat(1000, 10))
            ELSE ui_default_params.infill_density,
         wall_count |->
            IF wall_match # None THEN ParseInt(wall_match.group1)
            ELSE ui_default_params.wall_count,
         layer_height |->
            IF layer_match # None THEN ParseFloat(layer_match.group1)
            ELSE ui_default_params.layer_height,
         infill_pattern |->
            IF infill_type_match # None THEN UpperJoin(infill_type_match.group1)
            ELSE ui_default_params.infill_pattern]

(* lines 72-75 *)
ui_infill_strength_multipliers ==
    ("GRID" :> Rat(10, 10)) @@ ("LINES" :> Rat(8, 10)) @@
    ("TRIANGLES" :> Rat(12, 10)) @@ ("CUBIC" :> Rat(11, 10)) @@
    ("GYROID" :> Rat(13, 10)) @@ ("DEFAULT" :> Rat(10, 10))

(* lines 79-89 *)
ui_structural_score(gcode_params) ==
    LET infill_weight == Rat(4, 10)
        wall_weight == Rat(5, 10)
        layer_adhesion_weight == Rat(1, 10)
        layer_adhesion_factor ==
            RSub(Num(1), RDiv(gcode_params.layer_height, Rat(5, 10)))
    IN  RAdd(RAdd(RMul(gcode_params.infill_density, infill_weight),
                  RMul(RDiv(Num(gcode_params.wall_count), Rat(50, 10)),
                       wall_weight)),
             RMul(layer_adhesion_factor, layer_adhesion_weight))

ui_calculate_resistance_score(gcode_params, material_props) ==
    IF gcode_params = None \/ material_props = None THEN Num(0)
    ELSE
    LET infill_pattern == gcode_params.infill_pattern
        strength_multiplier ==
            IF infill_pattern \in DOMAIN ui_infill_strength_multipliers
            THEN ui_infill_strength_multipliers[infill_pattern]
            ELSE Rat(10, 10)
    IN  RMul(RMul(RMul(ui_structural_score(gcode_params),
                       Num(material_props.tensile_strength)),
                  Num(material_props.impact_strength)),
             strength_multiplier)

(* the verdict of run_analysis(): lines 175-183 *)
ui_verdict(resistance_score, impact_force) ==
    IF RGt(resistance_score, RMul(Num(impact_force), Rat(15, 10)))
    THEN "ROBUST - LIKELY TO SURVIVE"
    ELSE IF RGt(resistance_score, RMul(Num(impact_force), Rat(8, 10)))
    THEN "DAMAGED - LIKELY TO BE COMPROMISED"
    ELSE "FRAGILE - LIKELY TO SHATTER"

(* ------------------------------ the inputs ----------------------------- *)

Setting(key, value) == <<";", " ", key, " ", "=", " ">> \o value

Tight(key, value) == <<";", key, "=">> \o value

(* the lines of the texts: settings as slicers write them, tightly or     *)
(* with blanks, a negative value, a value that ends in the point, an       *)
(* unknown pattern name, and a line that is no comment                     *)
Lines ==
    { Setting("infill_percentage", <<"5", "5">>),
      Tight("wall_line_count", <<"0">>),
      Setting("layer_height", <<"0", ".", "4">>),
      Setting("layer_height", <<"-", "0", ".", "3">>),
      Tight("layer_height", <<"5", ".">>),
      Setting("infill_pattern", <<"gyroid">>),
      Tight("infill_pattern", <<"honeycomb">>),
      <<"layer_height", " ", "=", " ", "0", ".", "3">> }

RECURSIVE TextsOfLines(_)
TextsOfLines(n) ==
    IF n = 0 THEN {<<>>}
    ELSE IF n = 1 THEN Lines
    ELSE {t \o <<"\n">> \o l : t \in TextsOfLines(n - 1), l \in Lines}

Texts == UNION {TextsOfLines(n) : n \in 0..MaxLines}

(* the texts of the settings sweep: at most one line for each setting, in  *)
(* the order slicers write them; <<>> stands for the setting left out      *)
RECURSIVE Numeral(_)
Numeral(i) ==
    IF i < 10 THEN <<ToString(i)>> ELSE Numeral(i \div 10) \o <<ToString(i % 10)>>

OptLine(key, value) == IF value = <<>> THEN <<>> ELSE Setting(key, value) \o <<"\n">>

InfillValues == {<<>>, <<"0">>, <<"5", "5">>}

WallValues == {<<>>} \cup {Numeral(w) : w \in 0..MaxWalls}

LayerValues == {<<>>, <<"0", ".", "4">>, <<"0", ".", "5">>, <<"5", ".">>}

PatternValues ==
    {<<>>, <<"Lines">>, <<"triangles">>, <<"Cubic">>, <<"gyroid">>, <<"honeycomb">>}

SettingsTexts ==
    { OptLine("infill_percentage", a) \o OptLine("wall_line_count", b) \o
      OptLine("layer_height", c) \o OptLine("infill_pattern", d) :
        a \in InfillValues, b \in WallValues, c \in LayerValues,
        d \in PatternValues }

Readable(text) == [name |-> "part.gcode", status |-> "readable", content |-> text]

Missing == [name |-> "part.gcode", status |-> "missing", content |-> <<>>]

Unreadable == [name |-> "part.gcode", status |-> "unreadable", content |-> <<>>]

Files == {Readable(t) : t \in Texts} \cup {Missing, Unreadable}

(* the requests of the logging sessions *)
LogFiles ==
    {Missing, Unreadable, Readable(<<>>),
     Readable(Setting("infill_pattern", <<"gyroid">>))}

LogMaterials == {"PLA", "TPU"}

LogImpacts == {"MEDIUM (STRIKE)"}

(* --------------------------- impact_log.csv ---------------------------- *)

log_header ==
    <<"Timestamp", "File", "Material", "Impact Level", "Infill Density",
      "Wall Count", "Layer Height", "Resistance Score", "Impact Force",
      "Verdict">>

(* csv.DictWriter(fieldnames).writerow(rowdict): the cells in the order of *)
(* fieldnames, an empty cell for a field rowdict does not hold             *)
DictRow(fieldnames, rowdict) ==
    [i \in 1..Len(fieldnames) |->
        IF fieldnames[i] \in DOMAIN rowdict THEN rowdict[fieldnames[i]] ELSE ""]

(* datetime.now().strftime(...) *)
Timestamp(t) == "T" \o ToString(t)

NoLog == [exists |-> FALSE, rows |-> <<>>]

Idle ==
    [status |-> "idle", gcode_params |-> None, resistance_score |-> None,
     impact_force |-> 0, verdict |-> ""]

(* ------------------------------- main() -------------------------------- *)

write_log_with_header(lg, log_data) ==
    LET opened == [exists |-> TRUE, rows |-> lg.rows]
        headed == [opened EXCEPT !.rows = Append(@, log_header)]
    IN  [headed EXCEPT !.rows = Append(@, DictRow(log_header, log_data))]

(* lines 208-213: open(log_file, 'a'), the header when the file was not    *)
(* there, then the row                                                     *)
write_log(lg, log_data) ==
    LET file_exists == lg.exists
        opened == [exists |-> TRUE, rows |-> lg.rows]
        headed == IF ~file_exists
                  THEN [opened EXCEPT !.rows = Append(@, log_header)]
                  ELSE opened
    IN  [headed EXCEPT !.rows = Append(@, DictRow(log_header, log_data))]

(* Each local of main() is bound once, as the assignment that computes it *)
(* does: \E x \in {e} evaluates e a single time.                           *)
Main ==
    /\ clock < MaxRuns
    /\ clock' = clock + 1
    /\ \E gcode_params \in {analyze_gcode(file)} :
         IF gcode_params = None
         THEN /\ cli' = [Idle EXCEPT !.status = "read_failure"]
              /\ UNCHANGED <<log, completed>>
         ELSE
         \E material_props \in {Get(MATERIALS, material)},
            impact_force \in {Get(IMPACT_FORCES, impact)} :
         \E resistance_score \in
                {calculate_resistance_score(gcode_params, material_props)} :
         \E verdict \in {main_verdict(resistance_score, impact_force)} :
         \E log_data \in
                {("Timestamp" :> Timestamp(clock + 1)) @@
                 ("File" :> file.name) @@
                 ("Material" :> material) @@
                 ("Impact Level" :> impact) @@
                 ("Infill Density" :>
                     FormatPercent0(gcode_params.infill_density)) @@
                 ("Wall Count" :> ToString(gcode_params.wall_count)) @@
                 ("Layer Height" :> StrFloat(gcode_params.layer_height)) @@
                 ("Resistance Score" :> Format2f(resistance_score)) @@
                 ("Impact Force" :> ToString(impact_force)) @@
                 ("Verdict" :> verdict)} :
            /\ cli' = [status |-> "done",
                       gcode_params |-> gcode_params,
                       resistance_score |-> resistance_score,
                       impact_force |-> impact_force,
                       verdict |-> verdict]
            /\ log' = write_log(log, log_data)
            /\ completed' = Append(completed, log_data["Timestamp"])
    /\ UNCHANGED <<file, material, impact, ui>>

(* ---------------------------- run_analysis() --------------------------- *)

UiIdle ==
    [status |-> "idle", gcode_params |-> None, resistance_score |-> None,
     impact_force |-> 0, verdict |-> "",
     params_html |-> <<>>, results_html |-> <<>>, verdict_html |-> <<>>]

RunAnalysis ==
    /\ \E uploaded \in BOOLEAN :
         IF ~uploaded
         THEN ui' = [UiIdle EXCEPT !.status = "no_file",
                         !.params_html = <<"Please upload a G-code file.">>]
         ELSE
         \E gcode_params \in {ui_analyze_gcode(file)} :
         IF gcode_params = Raised
         THEN ui' = [UiIdle EXCEPT !.status = "raised"]
         ELSE IF gcode_params = None
         THEN ui' = [UiIdle EXCEPT !.status = "could_not_parse",
                         !.params_html = <<"Could not parse the G-code file.">>]
         ELSE
         \E material_props \in {Get(ui_MATERIALS, material)},
            impact_force \in {Get(ui_IMPACT_FORCES, impact)} :
         \E resistance_score \in
                {ui_calculate_resistance_score(gcode_params, material_props)} :
         \E verdict \in {ui_verdict(resistance_score, impact_force)} :
         \E verdict_bg \in
                {IF verdict = "ROBUST - LIKELY TO SURVIVE" THEN "#2E4638"
                 ELSE IF verdict = "DAMAGED - LIKELY TO BE COMPROMISED"
                 THEN "#5A4D2B"
                 ELSE "#5A2B2B"} :
            ui' = [status |-> "done",
                   gcode_params |-> gcode_params,
                   resistance_score |-> resistance_score,
                   impact_force |-> impact_force,
                   verdict |-> verdict,
                   params_html |->
                     <<FormatPercent0(gcode_params.infill_density),
                       ToString(gcode_params.wall_count),
                       StrFloat(gcode_params.layer_height),
                       gcode_params.infill_pattern>>,
                   results_html |->
                     <<Format2f(resistance_score), ToString(impact_force)>>,
                   verdict_html |-> <<verdict_bg, verdict>>]
    /\ UNCHANGED <<file, material, impact, log, clock, cli, completed>>

(* the next request: other arguments on the command line, another upload   *)
(* or another choice in the dropdowns                                      *)
NewRequest ==
    /\ \E f \in LogFiles, m \in LogMaterials, i \in LogImpacts :
         /\ <<f, m, i>> # <<file, material, impact>>
         /\ file' = f
         /\ material' = m
         /\ impact' = i
    /\ UNCHANGED <<log, clock, cli, ui, completed>>

(* --------------------------- specifications ---------------------------- *)

Start ==
    /\ log = NoLog
    /\ clock = 0
    /\ cli = Idle
    /\ ui = UiIdle
    /\ completed = <<>>

(* the first run of main() against a log that is not there yet *)
FirstMain == clock = 0 /\ Main

(* one request, any text, material and preset, served by either front end *)
Init ==
    /\ file \in Files
    /\ material \in DOMAIN MATERIALS
    /\ impact \in DOMAIN IMPACT_FORCES
    /\ Start

Next == FirstMain \/ RunAnalysis

Spec == Init /\ [][Next]_vars

(* one request, the settings swept over their values *)
InitSettings ==
    /\ file \in {Readable(t) : t \in SettingsTexts}
    /\ material \in DOMAIN MATERIALS
    /\ impact \in DOMAIN IMPACT_FORCES
    /\ Start

SpecSettings == InitSettings /\ [][Next]_vars

(* a session of requests against one log file *)
InitLog ==
    /\ file \in LogFiles
    /\ material \in LogMaterials
    /\ impact \in LogImpacts
    /\ Start

NextLog == Main \/ RunAnalysis \/ NewRequest

SpecLog == InitLog /\ [][NextLog]_vars

(* ------------------------------ the claims ----------------------------- *)

AllBlank(s, a, b) == \A j \in a..b : s[j] \in Whitespace

(* the text holds a comment that declares key: ';', blanks, the key,       *)
(* blanks, '=', blanks, and then a token of first                          *)
Declared(s, key, first) ==
    \E k \in 1..Len(s) :
        /\ s[k] = key
        /\ \E i \in 1..(k - 1) : s[i] = ";" /\ AllBlank(s, i + 1, k - 1)
        /\ \E e \in (k + 1)..Len(s) :
              /\ s[e] = "="
              /\ AllBlank(s, k + 1, e - 1)
              /\ \E v \in (e + 1)..Len(s) :
                    s[v] \in first /\ AllBlank(s, e + 1, v - 1)

Fields == {"infill_density", "wall_count", "layer_height", "infill_pattern"}

DefaultsWhereAbsent(text, r) ==
    /\ DOMAIN r = Fields
    /\ ~Declared(text, "infill_percentage", Digits)
          => r.infill_density = [n |-> 1, d |-> 5]
    /\ ~Declared(text, "wall_line_count", Digits) => r.wall_count = 2
    /\ ~Declared(text, "layer_height", Digits)
          => r.layer_height = [n |-> 1, d |-> 5]
    /\ ~Declared(text, "infill_pattern", WordTokens) => r.infill_pattern = "GRID"

(* C1: for every readable text both copies of analyze_gcode return a       *)
(* record with the four fields, and every field whose comment pattern does *)
(* not occur in the text has its default (0.20, 2, 0.2, "GRID"), whatever  *)
(* the other three patterns do; a text with none of them gives the default *)
(* record.                                                                 *)
C1_DefaultsFill ==
    file.status = "readable" =>
        /\ cli.status # "idle" =>
              /\ cli.status = "done"
              /\ DefaultsWhereAbsent(file.content, cli.gcode_params)
        /\ ui.status \notin {"idle", "no_file"} =>
              /\ ui.status = "done"
              /\ DefaultsWhereAbsent(file.content, ui.gcode_params)

C1_Witness ==
    /\ cli.status = "done"
    /\ ui.status = "done"
    /\ Declared(file.content, "wall_line_count", Digits)
    /\ Declared(file.content, "layer_height", {"-"})
    /\ ~Declared(file.content, "layer_height", Digits)
    /\ cli.gcode_params.wall_count = 0
    /\ cli.gcode_params.layer_height = [n |-> 1, d |-> 5]
    /\ ui.gcode_params.infill_pattern = "GRID"

TiersAsClaimed(score, F, robust, damaged, fragile) ==
    /\ robust  <=> 2 * score.n > 3 * F * score.d
    /\ damaged <=> (5 * score.n > 4 * F * score.d /\ 2 * score.n <= 3 * F * score.d)
    /\ fragile <=> 5 * score.n <= 4 * F * score.d

(* C2: the verdict is Robust iff score > 1.5 F, Damaged iff                *)
(* 0.8 F < score <= 1.5 F, Fragile iff score <= 0.8 F, in main() and in    *)
(* run_analysis(); a score equal to 1.5 F is Damaged, one equal to 0.8 F   *)
(* is Fragile.                                                             *)
C2_VerdictTiers ==
    /\ cli.status = "done" =>
          TiersAsClaimed(cli.resistance_score, cli.impact_force,
                         cli.verdict = "LIKELY TO SURVIVE",
                         cli.verdict = "LIKELY TO BE DAMAGED",
                         cli.verdict = "LIKELY TO SHATTER")
    /\ ui.status = "done" =>
          TiersAsClaimed(ui.resistance_score, ui.impact_force,
                         ui.verdict = "ROBUST - LIKELY TO SURVIVE",
                         ui.verdict = "DAMAGED - LIKELY TO BE COMPROMISED",
                         ui.verdict = "FRAGILE - LIKELY TO SHATTER")

C2_Witness ==
    /\ cli.status = "done"
    /\ ui.status = "done"
    /\ material = "PLA"
    /\ impact = "MEDIUM (STRIKE)"
    /\ cli.gcode_params.infill_density = [n |-> 0, d |-> 1]
    /\ cli.gcode_params.wall_count = 3
    /\ cli.gcode_params.layer_height = [n |-> 1, d |-> 2]
    /\ cli.gcode_params.infill_pattern = "GRID"
    /\ cli.resistance_score = [n |-> 75, d |-> 1]
    /\ 2 * cli.resistance_score.n = 3 * cli.impact_force * cli.resistance_score.d
    /\ cli.verdict = "LIKELY TO BE DAMAGED"
    /\ ui.verdict = "DAMAGED - LIKELY TO BE COMPROMISED"

ClaimedMultiplier(pattern) ==
    CASE pattern = "GRID"      -> 10
      [] pattern = "LINES"     -> 8
      [] pattern = "TRIANGLES" -> 12
      [] pattern = "CUBIC"     -> 11
      [] pattern = "GYROID"    -> 13
      [] OTHER                 -> 10

(* (infill*0.4 + (walls/5.0)*0.5 + (1 - layer/0.5)*0.1) * tensile * impact *)
(* * m, over the common denominator 100 * i.d * l.d                        *)
ClaimedScore(r, tensile, impact_strength) ==
    LET i == r.infill_density
        l == r.layer_height
    IN  Rat((4 * i.n * l.d + r.wall_count * i.d * l.d + (l.d - 2 * l.n) * i.d)
              * tensile * impact_strength * ClaimedMultiplier(r.infill_pattern),
            100 * i.d * l.d)

(* C3: calculate_resistance_score returns                                  *)
(* (infill*0.4 + (walls/5.0)*0.5 + (1 - layer/0.5)*0.1) * tensile * impact *)
(* * m, m the table multiplier of the pattern and 1.0 for a pattern the    *)
(* table does not hold; the default record with PLA scores 85.0.           *)
C3_ScoreFormula ==
    /\ cli.status = "done" =>
          /\ cli.resistance_score =
                ClaimedScore(cli.gcode_params,
                             MATERIALS[material].tensile_strength,
                             MATERIALS[material].impact_strength)
          /\ (file.content = <<>> /\ material = "PLA")
                => cli.resistance_score = [n |-> 85, d |-> 1]
    /\ ui.status = "done" =>
          /\ ui.resistance_score =
                ClaimedScore(ui.gcode_params,
                             ui_MATERIALS[material].tensile_strength,
                             ui_MATERIALS[material].impact_strength)
          /\ (file.content = <<>> /\ material = "PLA")
                => ui.resistance_score = [n |-> 85, d |-> 1]

C3_Witness ==
    /\ cli.status = "done"
    /\ ui.status = "done"
    /\ material = "TPU"
    /\ cli.gcode_params.infill_pattern = "TRIANGLES"
    /\ cli.gcode_params.wall_count = 3
    /\ cli.gcode_params.layer_height = [n |-> 2, d |-> 5]
    /\ cli.gcode_params.infill_density = [n |-> 11, d |-> 20]
    /\ cli.resistance_score = [n |-> 3402, d |-> 5]

(* C4 as stated: the resistance score of every analysis is >= 0. *)
C4_ScoreNonNegative ==
    /\ cli.status = "done" => cli.resistance_score.n >= 0
    /\ ui.status = "done" => ui.resistance_score.n >= 0

(* C4, amended: the resistance score is >= 0 for every record whose layer  *)
(* height is at most 0.5, for each of the four materials; a thicker layer  *)
(* makes the adhesion term negative and the score can fall below 0.        *)
C4_NonNegativeUpToHalf ==
    /\ (cli.status = "done"
          /\ 2 * cli.gcode_params.layer_height.n <= cli.gcode_params.layer_height.d)
          => cli.resistance_score.n >= 0
    /\ (ui.status = "done"
          /\ 2 * ui.gcode_params.layer_height.n <= ui.gcode_params.layer_height.d)
          => ui.resistance_score.n >= 0

C4_Witness ==
    /\ cli.status = "done"
    /\ ui.status = "done"
    /\ cli.gcode_params.layer_height = [n |-> 2, d |-> 5]
    /\ cli.gcode_params.wall_count = 0
    /\ cli.resistance_score.n > 0
    /\ ui.resistance_score.n > 0

InfillDensities == {Rat(0, 1), Rat(1, 5), Rat(11, 20), Rat(1, 1)}

(* C5: with layer height, pattern and material fixed, a record with a      *)
(* larger wall count, or with a larger infill density, scores at least as  *)
(* much.                                                                   *)
C5_Monotone ==
    cli.status = "done" =>
        LET r == cli.gcode_params
            m == MATERIALS[material]
        IN  /\ RGe(calculate_resistance_score([r EXCEPT !.wall_count = @ + 1], m),
                   cli.resistance_score)
            /\ \A d \in InfillDensities :
                  RGe(d, r.infill_density) =>
                     RGe(calculate_resistance_score([r EXCEPT !.infill_density = d], m),
                         cli.resistance_score)

C5_Witness ==
    /\ cli.status = "done"
    /\ cli.gcode_params.wall_count = 1
    /\ cli.gcode_params.layer_height = [n |-> 5, d |-> 1]
    /\ cli.resistance_score.n < 0
    /\ RGt(calculate_resistance_score([cli.gcode_params EXCEPT !.wall_count = 2],
                                      MATERIALS[material]),
           cli.resistance_score)

(* C6: a request whose file is missing or cannot be read ends as a read    *)
(* failure: main() and run_analysis() get no parameter record, compute no  *)
(* score and no verdict, and the log keeps the rows it had.                *)
C6_ReadFailure ==
    [][file.status # "readable" =>
          /\ clock' # clock =>
                /\ cli'.status = "read_failure"
                /\ cli'.gcode_params = None
                /\ cli'.resistance_score = None
                /\ cli'.verdict = ""
                /\ log' = log
                /\ completed' = completed
          /\ ui' # ui =>
                /\ ui'.status \in {"no_file", "could_not_parse", "raised"}
                /\ ui'.gcode_params = None
                /\ ui'.resistance_score = None
                /\ ui'.verdict = ""
                /\ log' = log]_vars

C6_Witness ==
    /\ file.status = "unreadable"
    /\ cli.status = "read_failure"
    /\ ui.status = "raised"
    /\ clock = 2
    /\ Len(log.rows) = 2

IsPrefix(a, b) == Len(a) <= Len(b) /\ SubSeq(b, 1, Len(a)) = a

C8_LogState ==
    /\ log.exists <=> completed # <<>>
    /\ ~log.exists => log.rows = <<>>
    /\ log.exists =>
          /\ Len(log.rows) = 1 + Len(completed)
          /\ log.rows[1] =
                <<"Timestamp", "File", "Material", "Impact Level",
                  "Infill Density", "Wall Count", "Layer Height",
                  "Resistance Score", "Impact Force", "Verdict">>
          /\ \A i \in 1..Len(completed) :
                /\ log.rows[i + 1][1] = completed[i]
                /\ log.rows[i + 1] # log.rows[1]

C8_LogStep ==
    /\ IsPrefix(log.rows, log'.rows)
    /\ log.exists => log'.exists
    /\ log.exists => Len(log'.rows) <= Len(log.rows) + 1

(* C8: after any sequence of runs of main() that starts from no log file,  *)
(* the log is one header row followed by one data row for each run that    *)
(* reached the end, in run order; a run only appends, and only the run     *)
(* that creates the file writes the header.                                *)
C8_AppendOnlyLog == []C8_LogState /\ [][C8_LogStep]_vars

C8_Witness ==
    /\ clock = 3
    /\ Len(completed) = 2
    /\ Len(log.rows) = 3
    /\ log.rows[2] # log.rows[3]
    /\ cli.status = "read_failure"

(* C9: every data row of the log has the eleven columns timestamp, file,   *)
(* material, impact level, infill density, wall count, layer height,       *)
(* infill pattern, resistance score, impact force and verdict; the         *)
(* record's infill pattern is in the row.                                  *)
C9_ElevenColumns ==
    log.exists =>
        /\ \A i \in 1..Len(log.rows) : Len(log.rows[i]) = 11
        /\ \E j \in 1..Len(log.rows[1]) :
              /\ log.rows[1][j] = "Infill Pattern"
              /\ cli.status = "done" =>
                    log.rows[Len(log.rows)][j] = cli.gcode_params.infill_pattern

TierOf(verdict) ==
    CASE verdict \in {"LIKELY TO SURVIVE", "ROBUST - LIKELY TO SURVIVE"}
            -> "Robust"
      [] verdict \in {"LIKELY TO BE DAMAGED", "DAMAGED - LIKELY TO BE COMPROMISED"}
            -> "Damaged"
      [] verdict \in {"LIKELY TO SHATTER", "FRAGILE - LIKELY TO SHATTER"}
            -> "Fragile"

(* C10: on a readable text, for every material and preset, main() and      *)
(* run_analysis() get the same parameter record, the same score and a      *)
(* verdict of the same tier.                                               *)
C10_FrontEndsAgree ==
    (file.status = "readable" /\ cli.status # "idle"
        /\ ui.status \notin {"idle", "no_file"}) =>
        /\ cli.status = "done"
        /\ ui.status = "done"
        /\ cli.gcode_params = ui.gcode_params
        /\ cli.resistance_score = ui.resistance_score
        /\ cli.impact_force = ui.impact_force
        /\ TierOf(cli.verdict) = TierOf(ui.verdict)

C10_Witness ==
    /\ cli.status = "done"
    /\ ui.status = "done"
    /\ material = "TPU"
    /\ cli.gcode_params.infill_pattern = "GYROID"
    /\ cli.gcode_params.layer_height = [n |-> 5, d |-> 1]
    /\ cli.verdict = "LIKELY TO SHATTER"
    /\ ui.verdict = "FRAGILE - LIKELY TO SHATTER"

NegativeLayerOnly(text) ==
    /\ Declared(text, "layer_height", {"-"})
    /\ ~Declared(text, "layer_height", Digits)

(* C7 as stated: a layer_height comment that declares the negative number  *)
(* -0.3 gives layer_height = -0.3.                                         *)
C7_NegativeTaken ==
    (cli.status = "done" /\ NegativeLayerOnly(file.content))
        => cli.gcode_params.layer_height = [n |-> -3, d |-> 10]

(* C7, amended: the patterns admit no sign.  A text whose layer_height     *)
(* comments declare only a negative number gives the default 0.2, neither  *)
(* the number nor the number without its sign; an unsigned number is taken *)
(* as declared with no range validation (5. gives 5.0).                    *)
C7_NegativeSkipped ==
    /\ (cli.status = "done" /\ NegativeLayerOnly(file.content))
          => cli.gcode_params.layer_height = [n |-> 1, d |-> 5]
    /\ (ui.status = "done" /\ NegativeLayerOnly(file.content))
          => ui.gcode_params.layer_height = [n |-> 1, d |-> 5]
    /\ (cli.status = "done"
          /\ Declared(file.content, "layer_height", {"5"})
          /\ ~Declared(file.content, "layer_height", Digits \ {"5"}))
          => cli.gcode_params.layer_height = [n |-> 5, d |-> 1]

C7_Witness ==
    /\ cli.status = "done"
    /\ ui.status = "done"
    /\ NegativeLayerOnly(file.content)
    /\ cli.gcode_params.layer_height = [n |-> 1, d |-> 5]
    /\ ui.gcode_params.layer_height = [n |-> 1, d |-> 5]

====
